---- MODULE Spec2Model ----
(***************************************************************************)
(* Canvas3d (src/src/graphics/canvas3d.rs): the 3d canvas of ggez.  The    *)
(* canvas queues draw commands (draw_mesh), keeps a list of render         *)
(* pipelines paired with the draw state they were built for, and submits   *)
(* the queue in one render pass (finish).                                  *)
(*                                                                         *)
(* An Option<T> is a sequence of length at most one: None is << >> and     *)
(* Some(x) is <<x>>.  A Vec<T> is a sequence, index k of the Vec being     *)
(* element k + 1 of the sequence.                                          *)
(***************************************************************************)
EXTENDS Integers, Sequences, FiniteSets, TLC

\* ------------------------------------------------------------------ bounds
\* Total number of draw_mesh calls made on one canvas.
MaxDrawMesh == 3
\* Total number of finish calls made on one canvas.
MaxFinish == 2

\* ------------------------------------------------------------------ values
None == << >>
Some(x) == <<x>>
IsSome(o) == Len(o) > 0
IsNone(o) == Len(o) = 0
\* Option::unwrap_or: the contained value, or the given default
UnwrapOr(o, d) == IF IsSome(o) THEN o[1] ELSE d
\* Option::unwrap on a value known to be Some
Unwrap(o) == o[1]

\* The shader built in Canvas3d::new from shader/draw3d.wgsl: both modules present.
DefaultShader == [vs_module |-> Some("draw3d_vs"), fs_module |-> Some("draw3d_fs")]
\* Shaders a caller passes to set_shader: either module may be absent.
VertexOnlyShader == [vs_module |-> Some("custom_vs"), fs_module |-> None]
FragmentOnlyShader == [vs_module |-> None, fs_module |-> Some("custom_fs")]
Shaders == {VertexOnlyShader, FragmentOnlyShader}

\* graphics::Sampler::default() and one other sampler
DefaultSampler == "linear_clamp"
Samplers == {"nearest_clamp"}

\* Clear colours a canvas is constructed with
Colors == {"black"}

\* Depth clear value of the render pass, LoadOp::Clear(1.0)
DepthClear == 1

\* Aabb::default().center, the zero vector (one coordinate stands for the vector)
AabbDefaultCenter == 0

\* Meshes passed to draw_mesh.  vert_buffer / ind_buffer / bind_group are the
\* Option<...> GPU handles of Mesh3d (TRUE: present); aabb is the result of
\* to_aabb(), None for a mesh without computable bounds, else Some(center);
\* indices is indices.len().
MeshCube == [vert_buffer |-> TRUE,  ind_buffer |-> TRUE,  bind_group |-> None, aabb |-> Some(2), indices |-> 3]
MeshNoIndexBuffer == [vert_buffer |-> TRUE,  ind_buffer |-> FALSE, bind_group |-> None, aabb |-> None,    indices |-> 6]
MeshNoBuffers == [vert_buffer |-> FALSE, ind_buffer |-> FALSE, bind_group |-> None, aabb |-> Some(2), indices |-> 3]
Meshes == {MeshCube, MeshNoIndexBuffer, MeshNoBuffers}

\* DrawParam3d values: offset is Option<Vec3>
ParamPlain == [offset |-> None]
ParamOffset == [offset |-> Some(5)]
Params == {ParamPlain, ParamOffset}

\* gfx.size() at construction: (width, height) of the window, whole pixels
WindowSizes == { <<2, 2>> }
\* (width, height) passed to resize as f32, counted in halves: <<5, 4>> is (2.5, 2.0)
Sizes == { <<4, 4>>, <<8, 4>>, <<5, 4>> }
\* Camera poses (the view part of Camera3d)
Views == { 0, 1 }

\* ------------------------------------------------------------------ state
VARIABLES
    draws,            \* Canvas3d.draws: Vec<DrawCommand3d>
    state,            \* Canvas3d.state: DrawState3d
    original_state,   \* Canvas3d.original_state: DrawState3d
    default_shader,   \* Canvas3d.default_shader: Shader
    pipelines,        \* Canvas3d.pipelines: Vec<(RenderPipeline, DrawState3d)>
    camera_uniform,   \* Canvas3d.camera_uniform
    instance_buffer,  \* Canvas3d.instance_buffer: Option<Buffer>, the buffer's records
    clear_color,      \* Canvas3d.clear_color
    curr_sampler,     \* Canvas3d.curr_sampler
    camera,           \* the caller's Camera3d, passed by &mut to new / resize / update_camera
    passes,           \* render passes encoded into gfx.commands(), oldest first
    result,           \* what the latest finish() returned; "none" before the first
    n_draw_mesh,      \* number of draw_mesh calls made since construction
    n_finish          \* number of finish calls made since construction

vars == <<draws, state, original_state, default_shader, pipelines, camera_uniform,
          instance_buffer, clear_color, curr_sampler, camera, passes, result,
          n_draw_mesh, n_finish>>

\* ------------------------------------------------------------------ camera
RECURSIVE Gcd(_, _)
Gcd(a, b) == IF b = 0 THEN a ELSE Gcd(b, a % b)
\* The f32 quotient w / h of two whole numbers, as a fraction in lowest terms
Ratio(w, h) == <<w \div Gcd(w, h), h \div Gcd(w, h)>>
\* `x as u32` of a non-negative f32 counted in halves: truncation toward zero
AsU32(halves) == halves \div 2
\* Projection::resize(width: u32, height: u32): aspect = width / height
ProjectionResize(cam, width, height) == [cam EXCEPT !.aspect = Ratio(width, height)]
\* CameraUniform::update_view_proj: the view-projection matrix of the camera, kept
\* as the pair of what it is computed from (projection aspect, view)
UpdateViewProj(cam) == [view_proj |-> <<cam.aspect, cam.view>>]

\* ------------------------------------------------------------------ pipelines
\* A variant of the pipeline creation with a fault: a shader lacking either
\* module is replaced as a whole by the original shader.
CreateRenderPipelineWhole(st, orig, handle) ==
    [ handle   |-> handle,
      label    |-> "Render Pipeline",
      vertex   |-> IF IsSome(st.shader.vs_module) /\ IsSome(st.shader.fs_module)
                   THEN Unwrap(st.shader.vs_module) ELSE Unwrap(orig.shader.vs_module),
      fragment |-> IF IsSome(st.shader.vs_module) /\ IsSome(st.shader.fs_module)
                   THEN Unwrap(st.shader.fs_module) ELSE Unwrap(orig.shader.fs_module) ]

\* The RenderPipeline that update_pipeline creates: each stage takes the current
\* shader's module, or the original shader's module when the current one has none.
\* Every create_render_pipeline call returns a new GPU object: handle tells the
\* objects apart, it is the number of pipelines the canvas created before.
CreateRenderPipeline(st, orig, handle) ==
    [ handle   |-> handle,
      label    |-> "Render Pipeline",
      vertex   |-> UnwrapOr(st.shader.vs_module,
                       UnwrapOr(orig.shader.vs_module, Unwrap(orig.shader.vs_module))),
      fragment |-> UnwrapOr(st.shader.fs_module, Unwrap(orig.shader.fs_module)) ]

\* Variants of update_pipeline with a fault, which the cache properties must
\* tell apart from it: the pipeline is built and not pushed; it is pushed
\* twice; it takes the place of the newest custom entry instead of being pushed.
UpdatePipelineNoPush(pls, st, orig) == pls
UpdatePipelineTwice(pls, st, orig) ==
    Append(Append(pls, [pipeline |-> CreateRenderPipeline(st, orig, Len(pls)), state |-> st]),
           [pipeline |-> CreateRenderPipeline(st, orig, Len(pls) + 1), state |-> st])
UpdatePipelineReplace(pls, st, orig) ==
    IF Len(pls) >= 2
    THEN [pls EXCEPT ![Len(pls)] =
             [pipeline |-> CreateRenderPipeline(st, orig, Len(pls)), state |-> st]]
    ELSE Append(pls, [pipeline |-> CreateRenderPipeline(st, orig, Len(pls)), state |-> st])

\* Canvas3d::update_pipeline: push (pipeline built for the current state, current state)
UpdatePipeline(pls, st, orig) ==
    Append(pls, [pipeline |-> CreateRenderPipeline(st, orig, Len(pls)), state |-> st])

\* The pipeline list Canvas3d::new builds: the default pipeline with the default state
NewPipelines(shader) ==
    << [ pipeline |-> [ handle   |-> 0,
                        label    |-> "Render Pipeline 3d",
                        vertex   |-> Unwrap(shader.vs_module),
                        fragment |-> Unwrap(shader.fs_module) ],
         state    |-> [shader |-> shader] ] >>

\* Variants of the loop of draw_mesh.  The first has a fault: at the last index
\* the pipeline is pushed and id is left at the last match (0 without one).
\* The second is find-or-build: the index of the last entry with the current
\* shader, a push only when there is none.
RECURSIVE ScanStatesKeepMatch(_, _, _, _, _, _)
ScanStatesKeepMatch(states, i, id, pls, st, orig) ==
    IF i >= Len(states) THEN [id |-> id, pipelines |-> pls]
    ELSE LET id1 == IF states[i + 1].shader = st.shader THEN i ELSE id
         IN  IF i = Len(pls) - 1
             THEN ScanStatesKeepMatch(states, i + 1, id1, UpdatePipeline(pls, st, orig), st, orig)
             ELSE ScanStatesKeepMatch(states, i + 1, id1, pls, st, orig)
ScanStatesFindOrBuild(states, i, id, pls, st, orig) ==
    LET matches == {k \in 1..Len(states) : states[k].shader = st.shader}
    IN  IF matches # {}
        THEN [id |-> (CHOOSE k \in matches : \A j \in matches : j <= k) - 1, pipelines |-> pls]
        ELSE [id |-> Len(pls), pipelines |-> UpdatePipeline(pls, st, orig)]

\* The loop of draw_mesh over the snapshot `states` of the cache's draw states,
\* from Vec index i on: [id, pipelines] when the loop ends.  The test
\* i == self.pipelines.len() - 1 reads the live list pls, not the snapshot.
RECURSIVE ScanStates(_, _, _, _, _, _)
ScanStates(states, i, id, pls, st, orig) ==
    IF i >= Len(states) THEN [id |-> id, pipelines |-> pls]
    ELSE LET id1 == IF states[i + 1].shader = st.shader THEN i ELSE id
         IN  IF i = Len(pls) - 1
             THEN ScanStates(states, i + 1, i + 1, UpdatePipeline(pls, st, orig), st, orig)
             ELSE ScanStates(states, i + 1, id1, pls, st, orig)

\* Pipeline resolution of draw_mesh: `let mut id = 0`, the snapshot, the loop
ResolvePipeline(pls, st, orig) ==
    ScanStates([k \in 1..Len(pls) |-> pls[k].state], 0, 0, pls, st, orig)

\* Mesh3d::gen_bind_group(canvas, pipeline_id, sampler): the mesh gets a bind group
\* for the pipeline and sampler if it has none; ok is whether generation succeeds.
GenBindGroup(mesh, id, sampler, ok) ==
    IF IsSome(mesh.bind_group) \/ ~ok THEN mesh
    ELSE [mesh EXCEPT !.bind_group = Some([pipeline_id |-> id, sampler |-> sampler])]

\* ------------------------------------------------------------------ finish
\* The instance record update_instance_data builds for one queued command:
\* Instance3d::from_param(&param, offset), offset being param.offset when set,
\* else the centre of the mesh's bounds, else that of Aabb::default().
\* (InstanceOfBoundsFirst is a variant with a fault: the bounds come first.)
InstanceOfBoundsFirst(cmd) ==
    IF IsSome(cmd.mesh.aabb)
    THEN [param |-> cmd.param, offset |-> Unwrap(cmd.mesh.aabb)]
    ELSE [param |-> cmd.param, offset |-> UnwrapOr(cmd.param.offset, AabbDefaultCenter)]
InstanceOf(cmd) ==
    IF IsSome(cmd.param.offset)
    THEN [param |-> cmd.param, offset |-> Unwrap(cmd.param.offset)]
    ELSE [param |-> cmd.param, offset |-> UnwrapOr(cmd.mesh.aabb, AabbDefaultCenter)]

\* A variant of update_instance_data with a fault: records are built only for
\* the commands whose mesh has every resource finish needs.
UpdateInstanceDataDrawable(queue) ==
    Some([k \in 1..Len(SelectSeq(queue, LAMBDA c :
                 IsSome(c.mesh.bind_group) /\ c.mesh.vert_buffer /\ c.mesh.ind_buffer))
          |-> InstanceOf(SelectSeq(queue, LAMBDA c :
                 IsSome(c.mesh.bind_group) /\ c.mesh.vert_buffer /\ c.mesh.ind_buffer)[k])])

\* Canvas3d::update_instance_data: a new buffer with one record per queued command
UpdateInstanceData(queue) == Some([k \in 1..Len(queue) |-> InstanceOf(queue[k])])

ErrBindGroup == "Bind Group not generated for mesh"
ErrVertBuffer == "Vert Buffer not generated for mesh"
ErrIndBuffer == "Ind Buffer not generated for mesh"
Errors == {ErrBindGroup, ErrVertBuffer, ErrIndBuffer}

\* A variant of the draw call with a fault: every call draws instance 0.
DrawIndexedFirstInstance(cmd, i, pls) ==
    [ pipeline   |-> pls[cmd.pipeline_id + 1].pipeline,
      bind_group |-> Unwrap(cmd.mesh.bind_group),
      mesh       |-> cmd.mesh,
      indices    |-> <<0, cmd.mesh.indices>>,
      base_vertex |-> 0,
      instances  |-> <<0, 1>> ]

\* pass.draw_indexed(0..indices.len(), 0, i..i + 1) with what is bound at that point
DrawIndexed(cmd, i, pls) ==
    [ pipeline   |-> pls[cmd.pipeline_id + 1].pipeline,
      bind_group |-> Unwrap(cmd.mesh.bind_group),
      mesh       |-> cmd.mesh,
      indices    |-> <<0, cmd.mesh.indices>>,
      base_vertex |-> 0,
      instances  |-> <<i, i + 1>> ]

\* A variant of the loop of finish with a fault: a command whose mesh lacks a
\* resource is skipped, and the loop goes on to the next command.
RECURSIVE RenderLoopSkip(_, _, _, _)
RenderLoopSkip(drained, i, calls, pls) ==
    IF i >= Len(drained) THEN [calls |-> calls, result |-> "Ok"]
    ELSE LET draw == drained[i + 1]
         IN  IF draw.pipeline_id >= Len(pls)
             THEN [calls |-> calls, result |-> "panic"]
             ELSE IF IsNone(draw.mesh.bind_group) \/ ~draw.mesh.vert_buffer \/ ~draw.mesh.ind_buffer
             THEN RenderLoopSkip(drained, i + 1, calls, pls)
             ELSE RenderLoopSkip(drained, i + 1, Append(calls, DrawIndexed(draw, i, pls)), pls)

\* A variant of the loop of finish with a fault: the draw calls issued before
\* the failing command are taken back when the loop is left with an error.
RECURSIVE RenderLoopRollback(_, _, _, _)
RenderLoopRollback(drained, i, calls, pls) ==
    IF i >= Len(drained) THEN [calls |-> calls, result |-> "Ok"]
    ELSE LET draw == drained[i + 1]
         IN  IF draw.pipeline_id >= Len(pls)
             THEN [calls |-> << >>, result |-> "panic"]
             ELSE IF IsNone(draw.mesh.bind_group)
             THEN [calls |-> << >>, result |-> ErrBindGroup]
             ELSE IF ~draw.mesh.vert_buffer
             THEN [calls |-> << >>, result |-> ErrVertBuffer]
             ELSE IF ~draw.mesh.ind_buffer
             THEN [calls |-> << >>, result |-> ErrIndBuffer]
             ELSE RenderLoopRollback(drained, i + 1, Append(calls, DrawIndexed(draw, i, pls)), pls)

\* The loop of finish over the drained list, from Vec index i on, calls being
\* the draw calls issued so far: [calls, result] when the loop is left, by its
\* end (Ok), by the first `?` that fails, or by the index panic of
\* self.pipelines[draw.pipeline_id].
RECURSIVE RenderLoop(_, _, _, _)
RenderLoop(drained, i, calls, pls) ==
    IF i >= Len(drained) THEN [calls |-> calls, result |-> "Ok"]
    ELSE LET draw == drained[i + 1]
         IN  IF draw.pipeline_id >= Len(pls)
             THEN [calls |-> calls, result |-> "panic"]
             ELSE IF IsNone(draw.mesh.bind_group)
             THEN [calls |-> calls, result |-> ErrBindGroup]
             ELSE IF ~draw.mesh.vert_buffer
             THEN [calls |-> calls, result |-> ErrVertBuffer]
             ELSE IF ~draw.mesh.ind_buffer
             THEN [calls |-> calls, result |-> ErrIndBuffer]
             ELSE RenderLoop(drained, i + 1, Append(calls, DrawIndexed(draw, i, pls)), pls)

\* A variant with a fault: the queue is cleared on the Ok path only, an early
\* return leaves it as it was.
DrawsAfterFinishKeepOnError(queue, res) == IF res = "Ok" THEN << >> ELSE queue

\* What self.draws holds when finish returns: drain(..) has emptied it before
\* the pass begins, on the Ok path clear() runs on the empty queue
DrawsAfterFinish(queue, res) == << >>

\* The render pass finish encodes: begin_render_pass (clear colour, depth
\* clear), the draw calls, and the pass dropped at the end of its block
RenderPass(color, calls) ==
    [ clear |-> color, depth_clear |-> DepthClear, draw_calls |-> calls, closed |-> TRUE ]

\* ------------------------------------------------------------------ actions
Running == result # "panic"

\* Canvas3d::new(gfx, camera, target, clear_color)
Init ==
    \E size \in WindowSizes, color \in Colors :
        /\ camera = [aspect |-> Ratio(size[1], size[2]), view |-> 0]
        /\ camera_uniform = UpdateViewProj(camera)
        /\ clear_color = color
        /\ curr_sampler = DefaultSampler
        /\ state = [shader |-> DefaultShader]
        /\ original_state = [shader |-> DefaultShader]
        /\ draws = << >>
        /\ pipelines = NewPipelines(DefaultShader)
        /\ instance_buffer = None
        /\ default_shader = DefaultShader
        /\ passes = << >>
        /\ result = "none"
        /\ n_draw_mesh = 0
        /\ n_finish = 0

\* Canvas3d::set_default_shader
SetDefaultShader ==
    /\ Running
    /\ state' = [state EXCEPT !.shader = default_shader]
    /\ UNCHANGED <<draws, original_state, default_shader, pipelines, camera_uniform,
                   instance_buffer, clear_color, curr_sampler, camera, passes, result,
                   n_draw_mesh, n_finish>>

\* A variant of set_shader with a fault: it builds the shader's pipeline at once.
SetShaderEager(shader) ==
    /\ Running
    /\ state' = [state EXCEPT !.shader = shader]
    /\ pipelines' = UpdatePipeline(pipelines, state', original_state)
    /\ UNCHANGED <<draws, original_state, default_shader, camera_uniform,
                   instance_buffer, clear_color, curr_sampler, camera, passes, result,
                   n_draw_mesh, n_finish>>

\* Canvas3d::set_shader(shader)
SetShader(shader) ==
    /\ Running
    /\ state' = [state EXCEPT !.shader = shader]
    /\ UNCHANGED <<draws, original_state, default_shader, pipelines, camera_uniform,
                   instance_buffer, clear_color, curr_sampler, camera, passes, result,
                   n_draw_mesh, n_finish>>

\* A variant of draw_mesh with a fault: the command is submitted at once, in a
\* render pass of its own, as well as queued.
DrawMeshSubmit(mesh, param, gen_ok) ==
    /\ Running
    /\ n_draw_mesh < MaxDrawMesh
    /\ LET r == ResolvePipeline(pipelines, state, original_state)
           m == GenBindGroup(mesh, r.id, curr_sampler, gen_ok)
       IN  /\ pipelines' = r.pipelines
           /\ draws' = Append(draws, [mesh |-> m, param |-> param, pipeline_id |-> r.id])
           /\ passes' = Append(passes, RenderPass(clear_color, << >>))
    /\ n_draw_mesh' = n_draw_mesh + 1
    /\ UNCHANGED <<state, original_state, default_shader, camera_uniform,
                   instance_buffer, clear_color, curr_sampler, camera, result,
                   n_finish>>

\* Canvas3d::draw_mesh(gfx, mesh, param); gen_ok: whether gen_bind_group succeeds
DrawMesh(mesh, param, gen_ok) ==
    /\ Running
    /\ n_draw_mesh < MaxDrawMesh
    /\ LET r == ResolvePipeline(pipelines, state, original_state)
           m == GenBindGroup(mesh, r.id, curr_sampler, gen_ok)
       IN  /\ pipelines' = r.pipelines
           /\ draws' = Append(draws, [mesh |-> m, param |-> param, pipeline_id |-> r.id])
    /\ n_draw_mesh' = n_draw_mesh + 1
    /\ UNCHANGED <<state, original_state, default_shader, camera_uniform,
                   instance_buffer, clear_color, curr_sampler, camera, passes, result,
                   n_finish>>

\* Canvas3d::draw(gfx, drawable, param) for a Mesh3d drawable: drawable.draw
\* hands the mesh to draw_mesh
Draw(mesh, param, gen_ok) == DrawMesh(mesh, param, gen_ok)

\* A variant of finish with a fault: the frame ends with the shader and the
\* sampler back at their defaults.
FinishResetState ==
    /\ Running
    /\ n_finish < MaxFinish
    /\ LET r == RenderLoop(draws, 0, << >>, pipelines)
       IN  /\ instance_buffer' = UpdateInstanceData(draws)
           /\ passes' = Append(passes, RenderPass(clear_color, r.calls))
           /\ result' = r.result
           /\ draws' = DrawsAfterFinish(draws, r.result)
    /\ n_finish' = n_finish + 1
    /\ state' = [state EXCEPT !.shader = default_shader]
    /\ curr_sampler' = DefaultSampler
    /\ UNCHANGED <<original_state, default_shader, pipelines, camera_uniform,
                   clear_color, camera, n_draw_mesh>>

\* A variant of finish with a fault: with nothing queued it returns Ok at once,
\* without a render pass and without a new instance buffer.
FinishSkipEmpty ==
    /\ Running
    /\ n_finish < MaxFinish
    /\ IF draws = << >>
       THEN /\ result' = "Ok"
            /\ UNCHANGED <<instance_buffer, passes, draws>>
       ELSE LET r == RenderLoop(draws, 0, << >>, pipelines)
            IN  /\ instance_buffer' = UpdateInstanceData(draws)
                /\ passes' = Append(passes, RenderPass(clear_color, r.calls))
                /\ result' = r.result
                /\ draws' = DrawsAfterFinish(draws, r.result)
    /\ n_finish' = n_finish + 1
    /\ UNCHANGED <<state, original_state, default_shader, pipelines, camera_uniform,
                   clear_color, curr_sampler, camera, n_draw_mesh>>

\* Canvas3d::finish(gfx)
Finish ==
    /\ Running
    /\ n_finish < MaxFinish
    /\ LET r == RenderLoop(draws, 0, << >>, pipelines)
       IN  /\ instance_buffer' = UpdateInstanceData(draws)
           /\ passes' = Append(passes, RenderPass(clear_color, r.calls))
           /\ result' = r.result
           /\ draws' = DrawsAfterFinish(draws, r.result)
    /\ n_finish' = n_finish + 1
    /\ UNCHANGED <<state, original_state, default_shader, pipelines, camera_uniform,
                   clear_color, curr_sampler, camera, n_draw_mesh>>

\* Variants of resize with a fault: the uniform is computed from the camera as
\* it was before the projection was resized; the uniform is not computed at all.
ResizeStale(size) ==
    /\ Running
    /\ camera' = ProjectionResize(camera, AsU32(size[1]), AsU32(size[2]))
    /\ camera_uniform' = UpdateViewProj(camera)
    /\ UNCHANGED <<draws, state, original_state, default_shader, pipelines,
                   instance_buffer, clear_color, curr_sampler, passes, result,
                   n_draw_mesh, n_finish>>
ResizeNoUniform(size) ==
    /\ Running
    /\ camera' = ProjectionResize(camera, AsU32(size[1]), AsU32(size[2]))
    /\ UNCHANGED <<draws, state, original_state, default_shader, pipelines, camera_uniform,
                   instance_buffer, clear_color, curr_sampler, passes, result,
                   n_draw_mesh, n_finish>>

\* Canvas3d::resize(width, height, ctx, camera)
Resize(size) ==
    /\ Running
    /\ camera' = ProjectionResize(camera, AsU32(size[1]), AsU32(size[2]))
    /\ camera_uniform' = UpdateViewProj(camera')
    /\ UNCHANGED <<draws, state, original_state, default_shader, pipelines,
                   instance_buffer, clear_color, curr_sampler, passes, result,
                   n_draw_mesh, n_finish>>

\* Canvas3d::update_camera(ctx, camera)
UpdateCamera ==
    /\ Running
    /\ camera_uniform' = UpdateViewProj(camera)
    /\ UNCHANGED <<draws, state, original_state, default_shader, pipelines,
                   instance_buffer, clear_color, curr_sampler, camera, passes, result,
                   n_draw_mesh, n_finish>>

\* The caller moves its camera between canvas calls (the canvas is not involved)
MoveCamera(view) ==
    /\ Running
    /\ camera' = [camera EXCEPT !.view = view]
    /\ UNCHANGED <<draws, state, original_state, default_shader, pipelines, camera_uniform,
                   instance_buffer, clear_color, curr_sampler, passes, result,
                   n_draw_mesh, n_finish>>

\* Canvas3d::set_sampler(sampler)
SetSampler(sampler) ==
    /\ Running
    /\ curr_sampler' = sampler
    /\ UNCHANGED <<draws, state, original_state, default_shader, pipelines, camera_uniform,
                   instance_buffer, clear_color, camera, passes, result,
                   n_draw_mesh, n_finish>>

\* Canvas3d::set_default_sampler
SetDefaultSampler ==
    /\ Running
    /\ curr_sampler' = DefaultSampler
    /\ UNCHANGED <<draws, state, original_state, default_shader, pipelines, camera_uniform,
                   instance_buffer, clear_color, camera, passes, result,
                   n_draw_mesh, n_finish>>

\* One step of the caller other than set_shader: any other operation of the
\* canvas, its arguments drawn from the given sets
CanvasOps(meshes, params, gen_oks, sizes, views, samplers) ==
    \/ SetDefaultShader
    \/ \E mesh \in meshes, param \in params, gen_ok \in gen_oks : DrawMesh(mesh, param, gen_ok)
    \/ \E mesh \in meshes, param \in params, gen_ok \in gen_oks : Draw(mesh, param, gen_ok)
    \/ Finish
    \/ \E size \in sizes : Resize(size)
    \/ UpdateCamera
    \/ \E view \in views : MoveCamera(view)
    \/ \E sampler \in samplers : SetSampler(sampler)
    \/ SetDefaultSampler

\* One step of the caller: any operation of the canvas
NextOf(shaders, meshes, params, gen_oks, sizes, views, samplers) ==
    \/ \E shader \in shaders : SetShader(shader)
    \/ CanvasOps(meshes, params, gen_oks, sizes, views, samplers)

\* Every operation, with both custom shaders, on a complete mesh and on one
\* without index buffer
Next == NextOf(Shaders, {MeshCube, MeshNoIndexBuffer}, {ParamPlain}, {TRUE},
               {<<4, 4>>, <<8, 4>>}, {0}, {DefaultSampler})
Spec == Init /\ [][Next]_vars

\* Every operation, with every mesh and parameter, and the default shader alone
FrameNext == NextOf({DefaultShader}, Meshes, Params, BOOLEAN, {<<4, 4>>}, {0}, {DefaultSampler})
FrameSpec == Init /\ [][FrameNext]_vars

\* The callers that never call set_shader
NoSetShaderNext == CanvasOps(Meshes, Params, BOOLEAN, {<<4, 4>>}, {0}, {DefaultSampler})
NoSetShaderSpec == Init /\ [][NoSetShaderNext]_vars

\* Every operation, with every size and camera pose, the default shader and
\* sampler, on a complete mesh and on one without index buffer
CameraNext == NextOf({DefaultShader}, {MeshCube, MeshNoIndexBuffer}, {ParamPlain}, {TRUE},
                     Sizes, Views, {DefaultSampler})
CameraSpec == Init /\ [][CameraNext]_vars

\* The callers that never call update_camera: the camera uniform is written by
\* resize alone
ResizeNext ==
    \/ \E size \in Sizes : Resize(size)
    \/ \E view \in Views : MoveCamera(view)
    \/ DrawMesh(MeshCube, ParamPlain, TRUE)
    \/ Finish
ResizeSpec == Init /\ [][ResizeNext]_vars

\* Every operation, with a custom shader and a second sampler, on a complete
\* mesh and on one without index buffer
SamplerNext == NextOf({VertexOnlyShader}, {MeshCube, MeshNoIndexBuffer}, {ParamPlain}, {TRUE},
                      {<<4, 4>>}, {0}, Samplers)
SamplerSpec == Init /\ [][SamplerNext]_vars

\* ------------------------------------------------------------------ claims
Last(seq) == seq[Len(seq)]
\* The step is a finish call / a draw_mesh call
FinishStep == n_finish' = n_finish + 1
DrawMeshStep == n_draw_mesh' = n_draw_mesh + 1
\* The queued command lacks a resource finish needs
LacksResource(cmd) ==
    IsNone(cmd.mesh.bind_group) \/ ~cmd.mesh.vert_buffer \/ ~cmd.mesh.ind_buffer
\* The resource the error names is one the mesh lacks
NamesMissing(err, mesh) ==
    \/ err = ErrBindGroup /\ IsNone(mesh.bind_group)
    \/ err = ErrVertBuffer /\ ~mesh.vert_buffer
    \/ err = ErrIndBuffer /\ ~mesh.ind_buffer

\* C1: when no set_shader call was made since construction, the pipeline cache
\* has exactly one entry after every finish call.
C1_OnlyDefaultPipeline == [][FinishStep => Len(pipelines') = 1]_vars

\* C2: a draw_mesh call made while the cache holds an entry for the current
\* shader gives the command the index of an entry the cache held before the call.
C2_FindOrBuild ==
    [][(DrawMeshStep /\ \E k \in 1..Len(pipelines) : pipelines[k].state.shader = state.shader)
          => Last(draws').pipeline_id < Len(pipelines)]_vars

\* C3: after every finish call the draw queue is empty, whether finish returned
\* Ok or a resource-missing error.
C3_QueueEmptyAfterFinish == [][FinishStep => draws' = << >>]_vars
\* a finish that failed after issuing a draw call, with commands left undrawn
C3_Witness ==
    /\ result \in Errors
    /\ draws = << >>
    /\ n_draw_mesh = 3
    /\ Len(passes) = 1
    /\ Len(passes[1].draw_calls) = 1

\* C4: every queued command's pipeline_id is a valid index into the pipeline
\* cache, and finish never indexes the cache out of bounds.
C4_PipelineIdValid ==
    /\ \A k \in 1..Len(draws) : draws[k].pipeline_id < Len(pipelines)
    /\ result # "panic"
\* commands queued under different shaders, and a finish that used the cache
C4_Witness ==
    /\ Len(draws) = 2
    /\ draws[1].pipeline_id # draws[2].pipeline_id
    /\ state.shader # DefaultShader
    /\ result = "Ok"
    /\ Len(passes[1].draw_calls) = 1

\* C5: finish returns an error exactly when some queued command lacks its bind
\* group, vertex buffer or index buffer; the error names a resource the first
\* such command (in submission order) lacks, the index buffer when that is all
\* it lacks; otherwise finish returns Ok.
C5_ErrorIffMissing ==
    [][FinishStep =>
        /\ result' \in Errors \cup {"Ok"}
        /\ (result' \in Errors) <=> (\E k \in 1..Len(draws) : LacksResource(draws[k]))
        /\ \A k \in 1..Len(draws) :
              (LacksResource(draws[k]) /\ \A j \in 1..(k - 1) : ~LacksResource(draws[j]))
                 => /\ NamesMissing(result', draws[k].mesh)
                    /\ (IsSome(draws[k].mesh.bind_group) /\ draws[k].mesh.vert_buffer)
                          => result' = ErrIndBuffer]_vars
\* a finish that failed on a mesh lacking only its index buffer, queued second
C5_Witness ==
    /\ result = ErrIndBuffer
    /\ Len(passes) = 1
    /\ Len(passes[1].draw_calls) = 1
    /\ n_draw_mesh = 2
    /\ draws = << >>

\* C6: a finish that returns Ok with N queued commands issues exactly N draw
\* calls in one render pass, in submission order, the k-th (from 0) for the
\* k-th command, with the instance range [k, k + 1).
C6_DrawCallsInOrder ==
    [][(FinishStep /\ result' = "Ok") =>
        /\ Len(passes') = Len(passes) + 1
        /\ LET calls == Last(passes').draw_calls
           IN  /\ Len(calls) = Len(draws)
               /\ \A k \in 1..Len(draws) :
                     /\ calls[k].mesh = draws[k].mesh
                     /\ calls[k].pipeline = pipelines[draws[k].pipeline_id + 1].pipeline
                     /\ calls[k].indices = <<0, draws[k].mesh.indices>>
                     /\ calls[k].instances = <<k - 1, k>>]_vars
\* a finish that returned Ok for three commands
C6_Witness ==
    /\ result = "Ok"
    /\ Len(passes) = 1
    /\ Len(passes[1].draw_calls) = 3
    /\ passes[1].draw_calls[3].instances = <<2, 3>>

\* C7: every finish call rebuilds the instance buffer from the N queued
\* commands: exactly N records, record k built from the k-th command, also
\* when finish then fails; nothing of the previous buffer is kept.
C7_InstanceBufferRebuilt ==
    [][FinishStep =>
        /\ IsSome(instance_buffer')
        /\ Len(Unwrap(instance_buffer')) = Len(draws)
        /\ \A k \in 1..Len(draws) :
              LET rec == Unwrap(instance_buffer')[k]
              IN  /\ rec.param = draws[k].param
                  /\ IsSome(draws[k].param.offset) => rec.offset = Unwrap(draws[k].param.offset)
                  /\ (IsNone(draws[k].param.offset) /\ IsSome(draws[k].mesh.aabb))
                        => rec.offset = Unwrap(draws[k].mesh.aabb)]_vars
\* a second frame of one command, whose finish failed, after a frame of two
C7_Witness ==
    /\ n_finish = 2
    /\ Len(passes[1].draw_calls) = 2
    /\ result \in Errors
    /\ IsSome(instance_buffer)
    /\ Len(Unwrap(instance_buffer)) = 1
    /\ Unwrap(instance_buffer)[1].param = ParamOffset

\* C8: set_shader and set_default_shader change the current shader state only:
\* the draw queue (with every command's pipeline_id) and the pipeline cache stay
\* as they are.
C8_SetShaderOnlyState ==
    [][state' # state =>
        /\ draws' = draws
        /\ pipelines' = pipelines
        /\ UNCHANGED <<original_state, default_shader, camera_uniform, instance_buffer,
                       clear_color, curr_sampler, passes, result>>]_vars
\* a command queued under one shader, the current shader being another
C8_Witness ==
    /\ Len(draws) >= 1
    /\ pipelines[Last(draws).pipeline_id + 1].state.shader = VertexOnlyShader
    /\ state.shader = FragmentOnlyShader
    /\ Len(pipelines) = n_draw_mesh + 1

\* C9: the pipeline cache never shrinks from one step to the next and never
\* holds more entries than the number of draw_mesh calls made so far plus one.
C9_CacheGrowth ==
    /\ Len(pipelines) <= n_draw_mesh + 1
    /\ [][ /\ Len(pipelines') >= Len(pipelines)
           /\ Len(pipelines') <= n_draw_mesh' + 1 ]_vars
\* three draw_mesh calls alternating between two shaders, a finish in between
C9_Witness ==
    /\ n_draw_mesh = 3
    /\ n_finish >= 1
    /\ Len(pipelines) = 4
    /\ pipelines[2].state.shader = VertexOnlyShader
    /\ pipelines[3].state.shader = DefaultShader
    /\ pipelines[4].state.shader = VertexOnlyShader

\* C10: the pipeline cache is never empty, its entry 0 is the default pipeline
\* with the default shader's state, and no operation removes, reorders or
\* replaces an entry: the cache before a step is a prefix of the cache after.
C10_CacheAppendOnly ==
    /\ Len(pipelines) = 1
    /\ pipelines[1].state.shader = DefaultShader
    /\ [][ /\ Len(pipelines') >= Len(pipelines)
           /\ SubSeq(pipelines', 1, Len(pipelines)) = pipelines
           /\ pipelines'[1].state.shader = DefaultShader
           /\ pipelines'[1].pipeline.vertex = Unwrap(DefaultShader.vs_module)
           /\ pipelines'[1].pipeline.fragment = Unwrap(DefaultShader.fs_module)]_vars
\* a cache of three entries after a finish, a resize and a shader change
C10_Witness ==
    /\ Len(pipelines) = 3
    /\ n_finish = 2
    /\ camera.aspect = <<2, 1>>
    /\ state.shader = FragmentOnlyShader

\* The number of draw calls in the render passes ps
RECURSIVE TotalDrawCalls(_)
TotalDrawCalls(ps) ==
    IF ps = << >> THEN 0 ELSE Len(ps[1].draw_calls) + TotalDrawCalls(Tail(ps))

\* C11: when finish meets a command lacking a resource at position k of the
\* queue, the render pass it leaves holds the draw calls of the k commands
\* before it and no other, the pass is closed, and the passes before stay.
C11_PartialSubmission ==
    [][(FinishStep /\ result' \in Errors) =>
        /\ Len(passes') = Len(passes) + 1
        /\ SubSeq(passes', 1, Len(passes)) = passes
        /\ Last(passes').closed
        /\ \E k \in 1..Len(draws) :
              /\ LacksResource(draws[k])
              /\ \A j \in 1..(k - 1) : ~LacksResource(draws[j])
              /\ Len(Last(passes').draw_calls) = k - 1
              /\ \A j \in 1..(k - 1) :
                    /\ Last(passes').draw_calls[j].mesh = draws[j].mesh
                    /\ Last(passes').draw_calls[j].instances = <<j - 1, j>>]_vars
\* three commands, the second lacking its vertex buffer: one draw call, closed pass
C11_Witness ==
    /\ result = ErrVertBuffer
    /\ n_draw_mesh = 3
    /\ n_finish = 1
    /\ draws = << >>
    /\ Len(passes[1].draw_calls) = 1
    /\ passes[1].closed

\* C12: the pipeline a draw_mesh call builds has the current shader's vertex
\* module if it has one, else the original shader's, and the same for the
\* fragment module, each stage on its own.
C12_ModuleFallback ==
    [][DrawMeshStep =>
        /\ Len(pipelines') = Len(pipelines) + 1
        /\ Last(pipelines').pipeline.vertex =
              (IF state.shader.vs_module # << >> THEN state.shader.vs_module[1]
               ELSE original_state.shader.vs_module[1])
        /\ Last(pipelines').pipeline.fragment =
              (IF state.shader.fs_module # << >> THEN state.shader.fs_module[1]
               ELSE original_state.shader.fs_module[1])]_vars
\* a pipeline built for the vertex-only shader and one for the fragment-only shader
C12_Witness ==
    /\ Len(pipelines) = 3
    /\ pipelines[2].pipeline.vertex = "custom_vs"
    /\ pipelines[2].pipeline.fragment = "draw3d_fs"
    /\ pipelines[3].pipeline.vertex = "draw3d_vs"
    /\ pipelines[3].pipeline.fragment = "custom_fs"

\* C13: render passes are opened by finish alone, one per call, clearing to the
\* clear colour and to depth 1.0: draw and draw_mesh open none, and the number
\* of passes opened is the number of finish calls made.
C13_OnePassPerFinish ==
    /\ passes = << >> /\ n_finish = 0
    /\ [][ /\ Len(passes') = n_finish'
           /\ FinishStep => (/\ Len(passes') = Len(passes) + 1
                              /\ Last(passes').clear = clear_color
                              /\ Last(passes').depth_clear = 1)
           /\ (~FinishStep) => (passes' = passes)
           /\ DrawMeshStep => (passes' = passes /\ Len(draws') = Len(draws) + 1) ]_vars
\* two finish calls, three draw_mesh calls, one command still queued
C13_Witness ==
    /\ n_finish = 2
    /\ Len(passes) = 2
    /\ n_draw_mesh = 3
    /\ Len(draws) = 1
    /\ TotalDrawCalls(passes) = 2

\* C14: a command is never retried: a finish call draws commands of the queue
\* it found only, each at most once, and leaves the queue empty, so over the
\* canvas's lifetime the draw calls issued and the commands still queued are
\* together no more than the draw_mesh calls made.
C14_NoRetry ==
    /\ [](TotalDrawCalls(passes) + Len(draws) <= n_draw_mesh)
    /\ [][FinishStep =>
            /\ draws' = << >>
            /\ Len(Last(passes').draw_calls) <= Len(draws)
            /\ TotalDrawCalls(passes') = TotalDrawCalls(passes) + Len(Last(passes').draw_calls)
            /\ \A k \in 1..Len(Last(passes').draw_calls) :
                  Last(passes').draw_calls[k].mesh = draws[k].mesh]_vars
\* a frame of two commands that failed at the first, then a frame of one that
\* drew it: the two commands of the failed frame were never drawn
C14_Witness ==
    /\ n_finish = 2
    /\ n_draw_mesh = 3
    /\ draws = << >>
    /\ result = "Ok"
    /\ Len(passes[1].draw_calls) = 0
    /\ Len(passes[2].draw_calls) = 1

\* The view-projection matrix of a camera with the given aspect and view
ViewProjOf(aspect, view) == [view_proj |-> <<aspect, view>>]

\* C15: the camera uniform is written by resize and update_camera alone (after
\* construction), to the view-projection of the camera passed in; draw_mesh,
\* finish, the shader and the sampler calls leave it as it is, and so does a
\* change the caller makes to its camera.
C15_UniformOnlyByCameraCalls ==
    /\ camera_uniform = ViewProjOf(camera.aspect, camera.view)
    /\ [][ /\ camera_uniform' # camera_uniform =>
                 /\ camera_uniform' = ViewProjOf(camera'.aspect, camera'.view)
                 /\ UNCHANGED <<draws, state, pipelines, instance_buffer, curr_sampler,
                                passes, n_draw_mesh, n_finish>>
           /\ camera'.aspect # camera.aspect =>
                 camera_uniform' = ViewProjOf(camera'.aspect, camera'.view)
           /\ camera'.view # camera.view => camera_uniform' = camera_uniform ]_vars
\* a finish made with a uniform that no longer is the camera's view-projection
C15_Witness ==
    /\ camera_uniform # ViewProjOf(camera.aspect, camera.view)
    /\ camera.aspect = <<2, 1>>
    /\ n_finish = 2
    /\ result = "Ok"
    /\ Len(passes[2].draw_calls) = 1

\* C16 as claimed: a step changes the camera uniform exactly when it changes the
\* camera's aspect ratio (the callers are those that never call update_camera).
C16_ChangesIffAspect ==
    [][(camera_uniform' # camera_uniform) <=> (camera'.aspect # camera.aspect)]_vars
\* C16: resize sets the uniform to the view-projection of the camera as it is
\* at the call, with the aspect (width as u32) / (height as u32); when the
\* uniform was that camera's view-projection before the call, it changes
\* exactly when the aspect changes.
C16_ResizeDeterministic ==
    [][ /\ (camera_uniform' # camera_uniform \/ camera'.aspect # camera.aspect) =>
                camera_uniform' = ViewProjOf(camera'.aspect, camera.view)
        /\ camera_uniform = ViewProjOf(camera.aspect, camera.view) =>
                ((camera_uniform' # camera_uniform) <=> (camera'.aspect # camera.aspect)) ]_vars
\* the camera moved, then a resize to another aspect: the uniform has both
C16_Witness ==
    /\ camera.aspect = <<2, 1>>
    /\ camera.view = 1
    /\ camera_uniform = ViewProjOf(<<2, 1>>, 1)
    /\ n_finish = 1

\* C17: the instance record of a queued command has the command's offset when
\* it has one, whatever the mesh's bounds; else the centre of the mesh's
\* bounds; else, the mesh having no bounds, the centre 0 of the default bounds.
C17_InstanceOffset ==
    [][FinishStep =>
        \A k \in 1..Len(draws) :
            Unwrap(instance_buffer')[k].offset =
                (IF draws[k].param.offset # << >> THEN draws[k].param.offset[1]
                 ELSE IF draws[k].mesh.aabb # << >> THEN draws[k].mesh.aabb[1]
                 ELSE 0)]_vars
\* records with an explicit offset (for a mesh that has bounds), with the
\* centre of the bounds, and with the default centre
C17_Witness ==
    /\ IsSome(instance_buffer)
    /\ Len(Unwrap(instance_buffer)) = 3
    /\ Unwrap(instance_buffer)[1].offset = 5
    /\ Unwrap(instance_buffer)[2].offset = 2
    /\ Unwrap(instance_buffer)[3].offset = 0
    /\ Len(Last(passes).draw_calls) = 2
    /\ Last(passes).draw_calls[1].mesh.aabb = Some(2)

\* C18: the cache entry at a queued command's pipeline_id has the shader that
\* was current when the command was queued, it stays so while the command is
\* queued, and finish binds that entry's pipeline for the command.
C18_PipelineOfEnqueueShader ==
    [][ /\ DrawMeshStep =>
              /\ Len(draws') = Len(draws) + 1
              /\ Last(draws').pipeline_id < Len(pipelines')
              /\ pipelines'[Last(draws').pipeline_id + 1].state.shader = state.shader
        /\ (\A k \in 1..Len(draws) :
              (k <= Len(draws') /\ draws'[k] = draws[k]) =>
                  pipelines'[draws[k].pipeline_id + 1] = pipelines[draws[k].pipeline_id + 1])
        /\ FinishStep =>
              \A k \in 1..Len(Last(passes').draw_calls) :
                  Last(passes').draw_calls[k].pipeline = pipelines[draws[k].pipeline_id + 1].pipeline ]_vars
\* three commands queued under three shaders, the current shader changed since
C18_Witness ==
    /\ Len(draws) = 3
    /\ pipelines[draws[1].pipeline_id + 1].state.shader = VertexOnlyShader
    /\ pipelines[draws[2].pipeline_id + 1].state.shader = DefaultShader
    /\ pipelines[draws[3].pipeline_id + 1].state.shader = FragmentOnlyShader
    /\ state.shader = DefaultShader

\* C19: every draw_mesh call appends exactly one cache entry and gives the
\* command its index, so the cache always holds one entry more than the
\* draw_mesh calls made since construction (and may hold equal draw states).
C19_OneEntryPerDrawMesh ==
    /\ [](Len(pipelines) = n_draw_mesh + 1)
    /\ [][DrawMeshStep =>
            /\ Len(pipelines') = Len(pipelines) + 1
            /\ SubSeq(pipelines', 1, Len(pipelines)) = pipelines
            /\ Last(draws').pipeline_id = Len(pipelines)]_vars
\* three calls in two frames under one shader: four entries, three of them equal
C19_Witness ==
    /\ n_draw_mesh = 3
    /\ n_finish = 2
    /\ Len(pipelines) = 4
    /\ pipelines[2].state = pipelines[3].state
    /\ pipelines[3].state = pipelines[4].state
    /\ Len(passes[1].draw_calls) = 1

\* C20: finish leaves the pipeline cache, the current and the original shader
\* state, the default shader, the sampler and the clear colour as they are,
\* whether it returns Ok or an error; a command queued afterwards still gets
\* the shader and the sampler that were set before.
C20_FinishKeepsState ==
    [][ /\ FinishStep =>
              UNCHANGED <<pipelines, state, original_state, default_shader,
                          curr_sampler, clear_color>>
        /\ DrawMeshStep =>
              /\ pipelines'[Last(draws').pipeline_id + 1].state.shader = state.shader
              /\ Last(draws').mesh.bind_group # << >> =>
                    Last(draws').mesh.bind_group[1].sampler = curr_sampler ]_vars
\* a frame drawn with the custom shader and the second sampler ended in an
\* error; the command queued after it has that shader and that sampler
C20_Witness ==
    /\ n_finish = 1
    /\ result \in Errors
    /\ n_draw_mesh = 3
    /\ Len(draws) = 1
    /\ Len(passes[1].draw_calls) = 1
    /\ passes[1].draw_calls[1].bind_group.sampler = "nearest_clamp"
    /\ passes[1].draw_calls[1].pipeline.vertex = "custom_vs"
    /\ draws[1].mesh.bind_group = Some([pipeline_id |-> 3, sampler |-> "nearest_clamp"])
    /\ pipelines[4].state.shader = VertexOnlyShader

\* C21: finish with nothing queued, right after construction or after an
\* earlier finish (one that ended in an error included), returns Ok, opens one
\* render pass that clears the colour target and the depth to 1.0, issues no
\* draw call in it, and leaves an instance buffer with zero records.
C21_FinishOnEmptyQueue ==
    [][(FinishStep /\ draws = << >>) =>
          /\ result' = "Ok"
          /\ Len(passes') = Len(passes) + 1
          /\ SubSeq(passes', 1, Len(passes)) = passes
          /\ Last(passes').draw_calls = << >>
          /\ Last(passes').clear = clear_color
          /\ Last(passes').depth_clear = 1
          /\ Last(passes').closed
          /\ instance_buffer' = Some(<< >>)
          /\ draws' = << >>]_vars
\* a frame of two commands ended in an error after one draw call; the finish
\* that followed, with nothing queued, returned Ok with an empty pass and buffer
C21_Witness ==
    /\ n_finish = 2
    /\ n_draw_mesh = 2
    /\ Len(passes) = 2
    /\ Len(passes[1].draw_calls) = 1
    /\ passes[2].draw_calls = << >>
    /\ passes[2].clear = clear_color
    /\ result = "Ok"
    /\ instance_buffer = Some(<< >>)
    /\ draws = << >>

====
